---- MODULE Spec2Model ----
(***************************************************************************)
(* CipherDock (src/CipherDock.py): a LUKS container manager.               *)
(*                                                                         *)
(* The model holds the part of the machine the program acts on (the files  *)
(* of the container directory, the entries of /dev/mapper, the mounts) and *)
(* the handlers of SecureContainerApp.  Names of files and mappers are     *)
(* sequences of one-character strings, so that the suffix tests and the    *)
(* name derivations of the code are computed, not assumed.                 *)
(*                                                                         *)
(* Two instances of the application run side by side (nothing in the code  *)
(* prevents it).  Inside one instance the handlers are serialised by the   *)
(* modal dialogs; a handler is split only where it blocks in a dialog      *)
(* after having read the state of the machine.                             *)
(***************************************************************************)
EXTENDS Integers, Sequences, FiniteSets, TLC

VARIABLES sys, proc, last, rt, call

vars == <<sys, proc, last, rt, call>>

(***************************************************************************)
(* Bounds                                                                  *)
(***************************************************************************)
\* cap of the count of live handles of one mapper name
MaxHandles == 2

Procs == {1, 2}

\* container names a user types in create_container
Names == {<<"a">>, <<"b">>}

(***************************************************************************)
(* Strings                                                                 *)
(***************************************************************************)
PASSPHRASE == <<"p", "w">>
MAPPER_SUFFIX == <<"_", "m", "a", "p", "p", "e", "r">>
CONTROL == <<"c", "o", "n", "t", "r", "o", "l">>
EXT_IMG == <<".", "i", "m", "g">>
EXT_LUKS == <<".", "l", "u", "k", "s">>
AT == <<" ", "a", "t", " ">>
DEV_MAPPER_DIR == <<"/", "d", "e", "v", "/", "m", "a", "p", "p", "e", "r", "/">>
MEDIA_DIR == <<"/", "r", "u", "n", "/", "m", "e", "d", "i", "a", "/", "u", "/">>
MOUNTED == <<"M", "o", "u", "n", "t", "e", "d", " ">>
VG_ROOT == <<"v", "g", "-", "r", "o", "o", "t">>

\* the value of an argument a command does not take, of a cancelled dialog
None == <<>>

\* str.endswith
EndsWith(s, suf) ==
    /\ Len(s) >= Len(suf)
    /\ SubSeq(s, Len(s) - Len(suf) + 1, Len(s)) = suf

\* position of the first occurrence of sub in s, 0 when there is none (str.find + 1)
Find(s, sub) ==
    LET hits == {i \in 1..(Len(s) - Len(sub) + 1) : SubSeq(s, i, i + Len(sub) - 1) = sub}
    IN IF hits = {} THEN 0 ELSE CHOOSE i \in hits : \A j \in hits : i <= j

\* str.replace(".", "")
RECURSIVE RemoveDots(_)
RemoveDots(s) ==
    IF s = <<>> THEN <<>>
    ELSE IF Head(s) = "." THEN RemoveDots(Tail(s))
    ELSE <<Head(s)>> \o RemoveDots(Tail(s))

\* str.strip, for the blank
RECURSIVE LStrip(_)
LStrip(s) == IF s # <<>> /\ Head(s) = " " THEN LStrip(Tail(s)) ELSE s

RECURSIVE RStrip(_)
RStrip(s) ==
    IF s # <<>> /\ s[Len(s)] = " " THEN RStrip(SubSeq(s, 1, Len(s) - 1)) ELSE s

Strip(s) == RStrip(LStrip(s))

\* os.path.splitext(f)[0]: the name up to its last dot; leading dots are no extension
SplitextBase(f) ==
    LET dots == {i \in 1..Len(f) : f[i] = "." /\ \E j \in 1..(i - 1) : f[j] # "."}
    IN IF dots = {} THEN f
       ELSE SubSeq(f, 1, (CHOOSE i \in dots : \A j \in dots : j <= i) - 1)

\* f"{base_name}_mapper"
MapperName(base) == base \o MAPPER_SUFFIX

\* f"{name}.img"
ImgFile(name) == name \o EXT_IMG

(***************************************************************************)
(* The machine.  sys.files: the files of the container directory;          *)
(* sys.luks: those formatted as LUKS volumes; sys.devmapper: the entries   *)
(* of /dev/mapper; sys.mounts: the mappers udisks has mounted;             *)
(* sys.handles: how many successful opens of a mapper name are live.       *)
(***************************************************************************)
MapperNames == {MapperName(n) : n \in Names}

\* entries of /dev/mapper that no container owns
ForeignEntries == {CONTROL, VG_ROOT}

\* a command line: the tool, the file and the mapper it is given, the identity it runs as
Cmd(tool, file, mapper, as) == [tool |-> tool, file |-> file, mapper |-> mapper, as |-> as]

\* mutant: a mapper name in use does not stop the open
cryptsetup_open_ok_reopen(s, c) == c.file \in s.luks

\* cryptsetup open fails on a file that is no LUKS volume and on a mapper name in use
cryptsetup_open_ok(s, c) ==
    /\ c.file \in s.luks
    /\ c.mapper \notin s.devmapper

\* mutant: the mapping is removed although the device is in use
cryptsetup_close_ok_forced(s, c) == c.mapper \in s.devmapper

\* cryptsetup close fails on a name that is not mapped and on a device in use
cryptsetup_close_ok(s, c) ==
    /\ c.mapper \in s.devmapper
    /\ c.mapper \notin s.mounts

\* udisksctl mount fails on a missing device and on a device mounted already
udisks_mount_ok(s, c) ==
    /\ c.mapper \in s.devmapper
    /\ c.mapper \notin s.mounts

\* udisksctl unmount fails on a device that is not mounted
udisks_unmount_ok(s, c) == c.mapper \in s.mounts

\* the directory udisks mounts a mapper at: /run/media/<user>/<label>, the label
\* being the name of the container
MountPoint(m) == MEDIA_DIR \o SubSeq(m, 1, Len(m) - Len(MAPPER_SUFFIX))

\* whether the machine lets the command succeed
ToolOk(s, c) ==
    CASE c.tool = "truncate" -> TRUE
      [] c.tool = "luksFormat" -> c.file \in s.files
      [] c.tool = "open" -> cryptsetup_open_ok(s, c) /\ s.handles[c.mapper] < MaxHandles
      [] c.tool = "mkfs" -> c.mapper \in s.devmapper /\ c.mapper \notin s.mounts
      [] c.tool = "e2label" -> c.mapper \in s.devmapper
      [] c.tool = "close" -> cryptsetup_close_ok(s, c)
      [] c.tool = "mount" -> udisks_mount_ok(s, c)
      [] c.tool = "unmount" -> udisks_unmount_ok(s, c)
      [] c.tool = "chown" -> TRUE
      [] OTHER -> FALSE

\* the machine after the command has succeeded
Effect(s, c) ==
    CASE c.tool = "truncate" -> [s EXCEPT !.files = @ \cup {c.file}]
      [] c.tool = "luksFormat" -> [s EXCEPT !.luks = @ \cup {c.file}]
      [] c.tool = "open" ->
            [s EXCEPT !.devmapper = @ \cup {c.mapper}, !.handles[c.mapper] = @ + 1]
      [] c.tool = "close" ->
            [s EXCEPT !.devmapper = @ \ {c.mapper},
                      !.handles[c.mapper] = IF @ > 0 THEN @ - 1 ELSE 0]
      [] c.tool = "mount" -> [s EXCEPT !.mounts = @ \cup {c.mapper}]
      [] c.tool = "unmount" -> [s EXCEPT !.mounts = @ \ {c.mapper}]
      [] OTHER -> s

\* subprocess.run of one command: its exit status and the machine after it;
\* fault is the machine's choice to fail it (wrong passphrase, busy device, ...)
Exec(s, c, fault) ==
    LET ok == ToolOk(s, c) /\ ~fault
    IN [ok |-> ok, sys |-> IF ok THEN Effect(s, c) ELSE s]

\* the commands run one after the other from the i-th; with check (check=True) the
\* first one that exits non-zero raises CalledProcessError and ends the run
RECURSIVE RunFrom(_, _, _, _, _, _)
RunFrom(s, cmds, faults, check, i, log) ==
    IF i > Len(cmds) THEN [sys |-> s, log |-> log, raised |-> FALSE]
    ELSE LET r == Exec(s, cmds[i], faults[Len(log) + 1])
             log2 == Append(log, [c |-> cmds[i], ok |-> r.ok])
         IN IF ~r.ok /\ check
            THEN [sys |-> r.sys, log |-> log2, raised |-> TRUE]
            ELSE RunFrom(r.sys, cmds, faults, check, i + 1, log2)

Run(s, cmds, faults, check, log) == RunFrom(s, cmds, faults, check, 1, log)

\* what the claims call the observed state
Observed(s) == [files |-> s.files, devmapper |-> s.devmapper, mounts |-> s.mounts]

(***************************************************************************)
(* What a handler tells the user and what it did                           *)
(***************************************************************************)
\* a messagebox call: the box, its title, and what its text is built of: the fixed
\* words, the name or path formatted into it, and the exception formatted into it
\* (the set is empty when there is none)
Box(box, title, text, name, exc) ==
    [box |-> box, title |-> title, text |-> text, name |-> name, exc |-> exc]

Report(box, title, text, name) == Box(box, title, text, name, {})

NoReport == Report("none", "", "", <<>>)

\* the CalledProcessError a failed command raises, as a handler formats it: str(e)
\* holds the command line; e.output is the captured stdout, "None" when none was
\* captured, and "" where the handler does not format it
CalledProcessError(log) ==
    LET c == log[Len(log)].c
    IN [cmd |-> c, output |-> IF c.tool = "mount" THEN "stdout" ELSE "None"]

\* the outcome of one step of a handler: the machine after it, the commands it ran
\* (with their exit status), its report, whether a dialog was cancelled, the answer
\* to its confirmation ("none" when it asked none), and the value it blocks on
Outcome(s, log, report, cancelled, confirm, ask) ==
    [sys |-> s, log |-> log, report |-> report, cancelled |-> cancelled,
     confirm |-> confirm, ask |-> ask]

\* a step that ends the handler without a command
Return(s, report, cancelled, confirm) == Outcome(s, <<>>, report, cancelled, confirm, None)

\* the fault choices of n commands run with check=True: only the first fault is seen
FirstFault(n) == {[i \in 1..n |-> i = k] : k \in 0..n}

\* the fault choices of n commands run with check=False
FaultVectors(n) == [1..n -> BOOLEAN]

(***************************************************************************)
(* Helper methods                                                          *)
(***************************************************************************)
\* mutant: every entry of /dev/mapper but control is listed
detect_open_mappers_unfiltered(s) == {m \in s.devmapper : m # CONTROL}

\* _detect_open_mappers: the entries of /dev/mapper that end in _mapper
detect_open_mappers(s) ==
    {m \in s.devmapper : EndsWith(m, MAPPER_SUFFIX) /\ m # CONTROL}

\* the orders in which os.listdir may return the members of S
Listings(S) ==
    {q \in [1..Cardinality(S) -> S] : \A i, j \in 1..Cardinality(S) : q[i] = q[j] => i = j}

\* the members of a list
Members(q) == {q[i] : i \in 1..Len(q)}

\* _get_container_files: the files that end in .img or .luks
get_container_files(s) ==
    {f \in s.files : EndsWith(f, EXT_IMG) \/ EndsWith(f, EXT_LUKS)}

\* the outcomes of _verify_container_dir_on_partition
VerifyOutcomes == {"ok", "makedirs_failed", "not_mounted", "not_on_partition"}

\* _verify_container_dir_on_partition: its error box, none when it returns True
verify_report(v) ==
    CASE v = "ok" -> NoReport
      [] v = "makedirs_failed" -> Report("showerror", "Error", "Cannot create container directory", <<>>)
      [] v = "not_mounted" -> Report("showerror", "Error", "is not mounted", <<>>)
      [] OTHER -> Report("showerror", "Error", "The container directory is not on the partition", <<>>)

(***************************************************************************)
(* MOUNT                                                                   *)
(***************************************************************************)
\* what udisksctl mount prints
MountStdouts == {"dot", "nodot", "empty"}

MountStdout(m, form) ==
    CASE form = "dot" -> MOUNTED \o DEV_MAPPER_DIR \o m \o AT \o MountPoint(m) \o <<".">>
      [] form = "nodot" -> MOUNTED \o DEV_MAPPER_DIR \o m \o AT \o MountPoint(m)
      [] OTHER -> <<>>

\* the mount path parsed from the output; None when the output holds no " at "
ParseMountPath(stdout) ==
    LET at == Find(stdout, AT)
    IN IF at = 0 THEN None
       ELSE Strip(RemoveDots(SubSeq(stdout, at + Len(AT), Len(stdout))))

\* os.path.isdir
IsDir(s, path) == path \in {MountPoint(m) : m \in s.mounts} \cup {MEDIA_DIR}

\* mutant: the mapper of the chosen container is not looked up in the open mappers
mount_container_begin_unchecked(s, in) ==
    IF in.verify # "ok" THEN Return(s, verify_report(in.verify), FALSE, "none")
    ELSE IF get_container_files(s) = {}
    THEN Return(s, Report("showinfo", "No Containers", "No container files found to mount.", <<>>), FALSE, "none")
    ELSE IF in.cfile = None THEN Return(s, NoReport, TRUE, "none")
    ELSE Outcome(s, <<>>, NoReport, FALSE, "none", in.cfile)

\* mount_container up to the passphrase dialog: the container is chosen and checked
\* against the open mappers; ask is the chosen file when the handler goes on
mount_container_begin(s, in) ==
    IF in.verify # "ok" THEN Return(s, verify_report(in.verify), FALSE, "none")
    ELSE IF get_container_files(s) = {}
    THEN Return(s, Report("showinfo", "No Containers", "No container files found to mount.", <<>>), FALSE, "none")
    ELSE IF in.cfile = None THEN Return(s, NoReport, TRUE, "none")
    ELSE IF MapperName(SplitextBase(in.cfile)) \in detect_open_mappers(s)
    THEN Return(s, Report("showwarning", "Already Open", "is already open. Unmount it first.",
                     SplitextBase(in.cfile)), FALSE, "none")
    ELSE Outcome(s, <<>>, NoReport, FALSE, "none", in.cfile)

\* mutant: the exception is not formatted into the text
mount_failed_report_bare(e) == Box("showerror", "Error", "Mount failed", <<>>, {})

\* the report of the except clause of mount_container
mount_failed_report(e) == Box("showerror", "Error", "Mount failed", <<>>, {e})

\* what mount_container does once cryptsetup open and udisksctl mount have succeeded
mount_container_after_mount(r, cfile, in) ==
    LET mount_path == ParseMountPath(Strip(MountStdout(MapperName(SplitextBase(cfile)), in.stdout)))
    IN IF mount_path # <<>> /\ IsDir(r.sys, mount_path)
       THEN LET r2 == Run(r.sys, <<Cmd("chown", mount_path, None, "root")>>, in.faults, TRUE, r.log)
            IN IF r2.raised
               THEN Outcome(r2.sys, r2.log, mount_failed_report(CalledProcessError(r2.log)),
                            FALSE, "yes", None)
               ELSE Outcome(r2.sys, r2.log, Report("showinfo", "Success", "Mounted and chowned", mount_path),
                            FALSE, "yes", None)
       ELSE Outcome(r.sys, r.log, Report("showwarning", "Mount Path Not Found", "Mount likely succeeded", <<>>),
                    FALSE, "yes", None)

\* mutant: the mount is run before the unlock
mount_container_cmds_mount_first(cfile) ==
    LET mapper_name == MapperName(SplitextBase(cfile))
    IN <<Cmd("mount", None, mapper_name, "user"), Cmd("open", cfile, mapper_name, "root")>>

\* the commands of the try block of mount_container, up to the mount
mount_container_cmds(cfile) ==
    LET mapper_name == MapperName(SplitextBase(cfile))
    IN <<Cmd("open", cfile, mapper_name, "root"), Cmd("mount", None, mapper_name, "user")>>

\* mutant: a failed mount is rolled back by closing the mapper
mount_container_run_rollback(s, cfile, in) ==
    IF in.luks_pass = None THEN Return(s, NoReport, TRUE, "none")
    ELSE IF ~in.confirm THEN Return(s, NoReport, TRUE, "no")
    ELSE LET r == Run(s, mount_container_cmds(cfile), in.faults, TRUE, <<>>)
             back == Run(r.sys, <<Cmd("close", None, MapperName(SplitextBase(cfile)), "root")>>,
                         in.faults, FALSE, r.log)
         IN IF r.raised
            THEN Outcome(IF Len(r.log) = 2 THEN back.sys ELSE r.sys,
                         IF Len(r.log) = 2 THEN back.log ELSE r.log,
                         mount_failed_report(CalledProcessError(r.log)), FALSE, "yes", None)
            ELSE mount_container_after_mount(r, cfile, in)

\* mount_container from the passphrase dialog on
mount_container_run(s, cfile, in) ==
    IF in.luks_pass = None THEN Return(s, NoReport, TRUE, "none")
    ELSE IF ~in.confirm THEN Return(s, NoReport, TRUE, "no")
    ELSE LET r == Run(s, mount_container_cmds(cfile), in.faults, TRUE, <<>>)
         IN IF r.raised
            THEN Outcome(r.sys, r.log, mount_failed_report(CalledProcessError(r.log)),
                         FALSE, "yes", None)
            ELSE mount_container_after_mount(r, cfile, in)

(***************************************************************************)
(* UNMOUNT                                                                 *)
(***************************************************************************)
\* unmount_container up to the confirmation: ask is the chosen mapper
unmount_container_begin(s, in) ==
    IF detect_open_mappers(s) = {}
    THEN Return(s, Report("showinfo", "No Open Containers", "No container mappers are open.", <<>>), FALSE, "none")
    ELSE IF in.mapper_choice = None THEN Return(s, NoReport, TRUE, "none")
    ELSE Outcome(s, <<>>, NoReport, FALSE, "none", in.mapper_choice)

\* mutant: the mapper is unmounted and left open
unmount_container_cmds_no_close(mapper_choice) ==
    <<Cmd("unmount", None, mapper_choice, "user")>>

\* the commands of the try block of unmount_container
unmount_container_cmds(mapper_choice) ==
    <<Cmd("unmount", None, mapper_choice, "user"), Cmd("close", None, mapper_choice, "root")>>

\* mutant: check=False, as in the sweeps
unmount_container_check_off == FALSE

\* check= of the subprocess.run calls of unmount_container
unmount_container_check == TRUE

\* mutant: the commands run before the confirmation is looked at
unmount_container_run_eager(s, mapper_choice, in) ==
    LET r == Run(s, unmount_container_cmds(mapper_choice), in.faults, TRUE, <<>>)
    IN Outcome(r.sys, r.log, NoReport, ~in.confirm, IF in.confirm THEN "yes" ELSE "no", None)

\* unmount_container from the confirmation on
unmount_container_run(s, mapper_choice, in) ==
    IF ~in.confirm THEN Return(s, NoReport, TRUE, "no")
    ELSE LET r == Run(s, unmount_container_cmds(mapper_choice), in.faults,
                      unmount_container_check, <<>>)
         IN IF r.raised
            THEN Outcome(r.sys, r.log,
                         Box("showerror", "Error", "Failed to unmount", <<>>,
                             {[CalledProcessError(r.log) EXCEPT !.output = ""]}),
                         FALSE, "yes", None)
            ELSE Outcome(r.sys, r.log, Report("showinfo", "Success", "Unmounted & closed", mapper_choice),
                         FALSE, "yes", None)

(***************************************************************************)
(* STARTUP CLEANUP and EXIT CLEANUP                                        *)
(***************************************************************************)
\* mutant: the loop unmounts and does not close
RECURSIVE sweep_cmds_no_close(_)
sweep_cmds_no_close(leftover) ==
    IF leftover = <<>> THEN <<>>
    ELSE <<Cmd("unmount", None, Head(leftover), "user")>> \o sweep_cmds_no_close(Tail(leftover))

\* the commands of the for loop of a sweep over the list leftover
RECURSIVE sweep_cmds(_)
sweep_cmds(leftover) ==
    IF leftover = <<>> THEN <<>>
    ELSE <<Cmd("unmount", None, Head(leftover), "user"), Cmd("close", None, Head(leftover), "root")>>
         \o sweep_cmds(Tail(leftover))

\* mutant: check=True, as in unmount_container
sweep_check_on == TRUE

\* check= of the subprocess.run calls of the sweeps
sweep_check == FALSE

\* a sweep up to its confirmation: ask is the list of leftover mappers
sweep_begin(s, leftover) ==
    IF leftover = <<>> THEN Return(s, NoReport, FALSE, "none")
    ELSE Outcome(s, <<>>, NoReport, FALSE, "none", leftover)

\* a sweep from its confirmation on; it shows no box and returns nothing
sweep_run(s, leftover, in) ==
    IF ~in.do_cleanup THEN Return(s, NoReport, TRUE, "no")
    ELSE LET r == Run(s, sweep_cmds(leftover), in.faults, sweep_check, <<>>)
         IN Outcome(r.sys, r.log, NoReport, FALSE, "yes", None)

(***************************************************************************)
(* CREATE                                                                  *)
(***************************************************************************)
Digits == {"0", "1", "2", "3", "4", "5", "6", "7", "8", "9"}

DigitVal(c) ==
    CASE c = "0" -> 0 [] c = "1" -> 1 [] c = "2" -> 2 [] c = "3" -> 3 [] c = "4" -> 4
      [] c = "5" -> 5 [] c = "6" -> 6 [] c = "7" -> 7 [] c = "8" -> 8 [] OTHER -> 9

LOWER == <<"a", "b", "c", "d", "e", "f", "g", "h", "i", "j", "k", "l", "m",
           "n", "o", "p", "q", "r", "s", "t", "u", "v", "w", "x", "y", "z">>

UPPER == <<"A", "B", "C", "D", "E", "F", "G", "H", "I", "J", "K", "L", "M",
           "N", "O", "P", "Q", "R", "S", "T", "U", "V", "W", "X", "Y", "Z">>

\* str.upper
UpperChar(c) ==
    IF \E i \in 1..Len(LOWER) : LOWER[i] = c
    THEN UPPER[CHOOSE i \in 1..Len(LOWER) : LOWER[i] = c]
    ELSE c

Upper(s) == [i \in 1..Len(s) |-> UpperChar(s[i])]

\* the value of a string of decimal digits
RECURSIVE DecimalValue(_)
DecimalValue(s) ==
    IF s = <<>> THEN 0 ELSE 10 * DecimalValue(SubSeq(s, 1, Len(s) - 1)) + DigitVal(s[Len(s)])

\* a count of bytes, hi * 1024**2 + lo with lo < 1024**2: Python's integers are
\* unbounded and the counts of the G suffix pass 2**31, so they are kept in two parts
Bytes(hi, lo) == [kind |-> "bytes", hi |-> hi, lo |-> lo]

\* n * mult bytes for the multipliers of the code
Scaled(n, mult) ==
    CASE mult = "G" -> Bytes(n * 1024, 0)
      [] mult = "M" -> Bytes(n, 0)
      [] mult = "K" -> Bytes(n \div 1024, (n % 1024) * 1024)
      [] OTHER -> Bytes(n \div (1024 * 1024), n % (1024 * 1024))

\* a > b
Exceeds(a, b) == a.hi > b.hi \/ (a.hi = b.hi /\ a.lo > b.lo)

\* the result of _parse_size_to_bytes on a spec that float() rejects: return None
InvalidSize == [kind |-> "none", hi |-> 0, lo |-> 0]

\* _parse_size_to_bytes left by an exception: int() of a float that is nan raises
\* ValueError and int() of an infinite one OverflowError, after the try block
SizeRaises == [kind |-> "raises", hi |-> 0, lo |-> 0]

\* float(s) accepts a string of decimal digits
IsNumber(s) == s # <<>> /\ \A i \in 1..Len(s) : s[i] \in Digits

\* float(s) accepts the words nan and inf too (s is upper case here)
IsNanOrInf(s) == s \in {<<"N", "A", "N">>, <<"I", "N", "F">>}

\* _parse_size_to_bytes, on the specs whose numeric part is a string of digits, nan,
\* inf, or something float() raises ValueError on
parse_size_to_bytes(size_str) ==
    LET s == Upper(Strip(size_str))
        suffixed == s # <<>> /\ s[Len(s)] \in {"G", "M", "K"}
        mult == IF suffixed THEN s[Len(s)] ELSE "1"
        num == IF suffixed THEN SubSeq(s, 1, Len(s) - 1) ELSE s
    IN IF IsNumber(num) THEN Scaled(DecimalValue(num), mult)
       ELSE IF IsNanOrInf(num) THEN SizeRaises
       ELSE InvalidSize

\* what df --block-size=1 gives: a non-zero exit, output with too few lines or
\* columns, a column that is no integer, or the available bytes
DfOutputs ==
    {[kind |-> k, available |-> 0] : k \in {"raises", "short", "not_int"}}
    \cup {[kind |-> "available", available |-> 2048]}

\* the size specs a user types
SizeSpecs == {<<"1", "k">>, <<"4", "K">>, <<"x">>, <<"n", "a", "n">>}

\* mutant: the size is not compared with the free space
check_free_space_uncompared(size_str, df) ==
    LET size_bytes == parse_size_to_bytes(size_str)
        log == <<[c |-> Cmd("df", None, None, "root"), ok |-> df.kind # "raises"]>>
    IN IF size_bytes = SizeRaises
       THEN [ok |-> FALSE, raised |-> TRUE, log |-> <<>>, report |-> NoReport]
       ELSE IF size_bytes = InvalidSize
       THEN [ok |-> FALSE, raised |-> FALSE, log |-> <<>>,
             report |-> Report("showerror", "Error", "Invalid size format", size_str)]
       ELSE [ok |-> TRUE, raised |-> FALSE, log |-> log, report |-> NoReport]

\* _check_free_space: its verdict, its error box and the command it ran; raised when
\* the exception of _parse_size_to_bytes passes through it
check_free_space(size_str, df) ==
    LET size_bytes == parse_size_to_bytes(size_str)
        log == <<[c |-> Cmd("df", None, None, "root"), ok |-> df.kind # "raises"]>>
    IN IF size_bytes = SizeRaises
       THEN [ok |-> FALSE, raised |-> TRUE, log |-> <<>>, report |-> NoReport]
       ELSE IF size_bytes = InvalidSize
       THEN [ok |-> FALSE, raised |-> FALSE, log |-> <<>>,
             report |-> Report("showerror", "Error", "Invalid size format", size_str)]
       ELSE IF df.kind = "available" /\ Exceeds(size_bytes, Scaled(df.available, "1"))
       THEN [ok |-> FALSE, raised |-> FALSE, log |-> log,
             report |-> Report("showerror", "Error", "Not enough free space", size_str)]
       ELSE [ok |-> TRUE, raised |-> FALSE, log |-> log, report |-> NoReport]

\* a handler left by an exception it does not catch: Tk prints the traceback and
\* shows no box
Uncaught(exception, name) == Report("traceback", "Exception in Tkinter callback", exception, name)

\* mutant: the filesystem is built before the unlock
create_container_cmds_mkfs_first(name) ==
    <<Cmd("truncate", ImgFile(name), None, "root"),
      Cmd("luksFormat", ImgFile(name), None, "root"),
      Cmd("mkfs", None, MapperName(name), "root"),
      Cmd("open", ImgFile(name), MapperName(name), "root"),
      Cmd("e2label", name, MapperName(name), "root"),
      Cmd("close", None, MapperName(name), "root")>>

\* the commands of the try block of create_container (e2label is given the label in
\* the place of the file)
create_container_cmds(name) ==
    <<Cmd("truncate", ImgFile(name), None, "root"),
      Cmd("luksFormat", ImgFile(name), None, "root"),
      Cmd("open", ImgFile(name), MapperName(name), "root"),
      Cmd("mkfs", None, MapperName(name), "root"),
      Cmd("e2label", name, MapperName(name), "root"),
      Cmd("close", None, MapperName(name), "root")>>

\* create_container
create_container(s, in) ==
    IF in.verify # "ok" THEN Return(s, verify_report(in.verify), FALSE, "none")
    ELSE IF in.name = None \/ in.size_str = None \/ in.luks_pass = None
    THEN Return(s, NoReport, TRUE, "none")
    ELSE IF ImgFile(in.name) \in s.files
    THEN Return(s, Report("showerror", "Error", "Container file already exists", ImgFile(in.name)),
                FALSE, "none")
    ELSE LET space == check_free_space(in.size_str, in.df)
         IN IF space.raised
            THEN Outcome(s, space.log, Uncaught("int() of nan or inf", in.size_str), FALSE, "none", None)
            ELSE IF ~space.ok THEN Outcome(s, space.log, space.report, FALSE, "none", None)
            ELSE IF ~in.confirm THEN Outcome(s, space.log, NoReport, TRUE, "no", None)
            ELSE LET r == Run(s, create_container_cmds(in.name),
                              [i \in 1..7 |-> i > 1 /\ in.faults[i - 1]], TRUE, space.log)
                 IN IF r.raised
                    THEN Outcome(r.sys, r.log,
                                 Box("showerror", "Error", "Failed to create container", <<>>,
                                     {[CalledProcessError(r.log) EXCEPT !.output = ""]}),
                                 FALSE, "yes", None)
                    ELSE Outcome(r.sys, r.log,
                                 Report("showinfo", "Success", "Created container", ImgFile(in.name)),
                                 FALSE, "yes", None)

(***************************************************************************)
(* The inputs of the handlers: what the user answers and what the machine  *)
(* does.  An input a handler does not reach keeps its default value.       *)
(***************************************************************************)
NoFaults(n) == [i \in 1..n |-> FALSE]

CreateDefault ==
    [verify |-> "ok", name |-> None, size_str |-> None, luks_pass |-> None,
     df |-> [kind |-> "short", available |-> 0], confirm |-> FALSE, faults |-> NoFaults(6)]

\* the size specs and df outputs with which _check_free_space returns True
Passing == {zd \in SizeSpecs \X DfOutputs : check_free_space(zd[1], zd[2]).ok}

\* a size that fits with the df output that shows it
Fits == <<<<"1", "k">>, [kind |-> "available", available |-> 2048]>>

\* every way through create_container: a failed verification; a cancelled name, size
\* or passphrase dialog; a name whose file exists; then for each other name each
\* size with each df output (df is not run for an invalid size), the confirmation
\* declined and accepted, and for a size known to fit every first fault of the six
\* commands
CreateInputs(s) ==
    LET Fresh == {n \in Names : ImgFile(n) \notin s.files}
    IN {[CreateDefault EXCEPT !.verify = v] : v \in VerifyOutcomes}
       \cup {[CreateDefault EXCEPT !.name = <<"a">>]}
       \cup {[CreateDefault EXCEPT !.name = <<"a">>, !.size_str = Fits[1]]}
       \cup {[CreateDefault EXCEPT !.name = n, !.size_str = Fits[1], !.luks_pass = PASSPHRASE] :
               n \in Names \ Fresh}
       \cup {[CreateDefault EXCEPT !.name = n, !.size_str = z, !.luks_pass = PASSPHRASE] :
               n \in Fresh, z \in {z \in SizeSpecs : parse_size_to_bytes(z).kind # "bytes"}}
       \cup {[CreateDefault EXCEPT !.name = n, !.size_str = z, !.luks_pass = PASSPHRASE, !.df = d] :
               n \in Fresh, z \in {z \in SizeSpecs : parse_size_to_bytes(z).kind = "bytes"},
               d \in DfOutputs}
       \cup {[CreateDefault EXCEPT !.name = n, !.size_str = zd[1], !.luks_pass = PASSPHRASE,
                                   !.df = zd[2], !.confirm = TRUE] :
               n \in Fresh, zd \in Passing}
       \cup {[CreateDefault EXCEPT !.name = n, !.size_str = Fits[1], !.luks_pass = PASSPHRASE,
                                   !.df = Fits[2], !.confirm = TRUE, !.faults = f] :
               n \in Fresh, f \in FirstFault(6) \ {NoFaults(6)}}

MountBeginInputs(s) ==
    {[verify |-> v, cfile |-> None] : v \in VerifyOutcomes}
    \cup {[verify |-> "ok", cfile |-> f] : f \in get_container_files(s)}

MountRunDefault ==
    [luks_pass |-> None, confirm |-> FALSE, faults |-> NoFaults(3), stdout |-> "dot"]

MountRunInputs ==
    {MountRunDefault, [MountRunDefault EXCEPT !.luks_pass = PASSPHRASE]}
    \cup {[MountRunDefault EXCEPT !.luks_pass = PASSPHRASE, !.confirm = TRUE, !.faults = f, !.stdout = o] :
            f \in FirstFault(3), o \in MountStdouts}

UnmountBeginInputs(s) ==
    {[mapper_choice |-> m] : m \in detect_open_mappers(s) \cup {None}}

UnmountRunInputs ==
    {[confirm |-> FALSE, faults |-> NoFaults(2)]}
    \cup {[confirm |-> TRUE, faults |-> f] : f \in FirstFault(2)}

SweepRunInputs(leftover) ==
    {[do_cleanup |-> FALSE, faults |-> NoFaults(2 * Len(leftover))]}
    \cup {[do_cleanup |-> TRUE, faults |-> f] : f \in FaultVectors(2 * Len(leftover))}

(***************************************************************************)
(* The state machine                                                       *)
(***************************************************************************)
\* files found in the container directory when the model starts
\* no function is being applied on its own
NoCall ==
    [fn |-> "none", text |-> None, path |-> None, n |-> 0, suffix |-> None, done |-> FALSE,
     mount_path |-> None, size_bytes |-> InvalidSize, report |-> NoReport, files |-> {}]

InitialFiles == {{}, {<<"a">> \o EXT_LUKS}}

At(pc, arg) == [pc |-> pc, arg |-> arg]

\* the open and the mount of mount_container both succeeded
Mounted(log) == Len(log) >= 2 /\ log[1].ok /\ log[2].ok

Init ==
    /\ \E F \in InitialFiles :
          sys = [files |-> F, luks |-> F, devmapper |-> ForeignEntries, mounts |-> {},
                 handles |-> [m \in MapperNames |-> 0]]
    /\ proc = [p \in Procs |-> At("off", None)]
    /\ last = [proc |-> 0, op |-> "init", pre |-> {}, arg |-> None, cmds |-> <<>>,
               report |-> NoReport, cancelled |-> FALSE, confirm |-> "none", rt |-> {}]
    /\ rt = {}
    /\ call = NoCall

\* one step of handler op of instance p with outcome o: the instance blocks in the
\* dialog pcAsk when the handler goes on, and is at pcDone when it has returned
Step(p, op, o, pcAsk, pcDone) ==
    /\ sys' = o.sys
    /\ proc' = [proc EXCEPT ![p] = IF o.ask # None THEN At(pcAsk, o.ask) ELSE At(pcDone, None)]
    /\ last' = [proc |-> p, op |-> op, pre |-> {sys}, arg |-> proc[p].arg, cmds |-> o.log,
                report |-> o.report, cancelled |-> o.cancelled, confirm |-> o.confirm,
                rt |-> rt]
    /\ rt' = IF op = "mount_container" /\ Mounted(o.log)
             THEN {[mapper |-> o.log[1].c.mapper, snap |-> Observed(sys)]}
             ELSE IF o.sys = sys THEN rt ELSE {}
    /\ UNCHANGED call

\* __init__ runs _startup_cleanup_check, which lists the leftover mappers
Start(p) ==
    /\ proc[p].pc = "off"
    /\ \E leftover \in Listings(detect_open_mappers(sys)) :
          Step(p, "startup_cleanup_check", sweep_begin(sys, leftover), "startup_ask", "idle")

StartupAnswer(p) ==
    /\ proc[p].pc = "startup_ask"
    /\ \E in \in SweepRunInputs(proc[p].arg) :
          Step(p, "startup_cleanup_check", sweep_run(sys, proc[p].arg, in), "idle", "idle")

CreateContainer(p) ==
    /\ proc[p].pc = "idle"
    /\ \E in \in CreateInputs(sys) :
          Step(p, "create_container", create_container(sys, in), "idle", "idle")

MountBegin(p) ==
    /\ proc[p].pc = "idle"
    /\ \E in \in MountBeginInputs(sys) :
          Step(p, "mount_container", mount_container_begin(sys, in), "mount_ask", "idle")

MountAnswer(p) ==
    /\ proc[p].pc = "mount_ask"
    /\ \E in \in MountRunInputs :
          Step(p, "mount_container", mount_container_run(sys, proc[p].arg, in), "idle", "idle")

UnmountBegin(p) ==
    /\ proc[p].pc = "idle"
    /\ \E in \in UnmountBeginInputs(sys) :
          Step(p, "unmount_container", unmount_container_begin(sys, in), "unmount_ask", "idle")

UnmountAnswer(p) ==
    /\ proc[p].pc = "unmount_ask"
    /\ \E in \in UnmountRunInputs :
          Step(p, "unmount_container", unmount_container_run(sys, proc[p].arg, in), "idle", "idle")

\* _on_exit lists the leftover mappers; with none it destroys the window at once
ExitBegin(p) ==
    /\ proc[p].pc = "idle"
    /\ \E leftover \in Listings(detect_open_mappers(sys)) :
          Step(p, "on_exit", sweep_begin(sys, leftover), "exit_ask", "off")

ExitAnswer(p) ==
    /\ proc[p].pc = "exit_ask"
    /\ \E in \in SweepRunInputs(proc[p].arg) :
          Step(p, "on_exit", sweep_run(sys, proc[p].arg, in), "off", "off")

\* the process is killed: no handler runs
Crash(p) ==
    /\ proc[p].pc # "off"
    /\ Step(p, "killed", Return(sys, NoReport, FALSE, "none"), "off", "off")

Next ==
    \E p \in Procs :
        \/ Start(p)
        \/ StartupAnswer(p)
        \/ CreateContainer(p)
        \/ MountBegin(p)
        \/ MountAnswer(p)
        \/ UnmountBegin(p)
        \/ UnmountAnswer(p)
        \/ ExitBegin(p)
        \/ ExitAnswer(p)
        \/ Crash(p)

Spec == Init /\ [][Next]_vars

(***************************************************************************)
(* The two parsers on their own: the text is drawn from a bounded set and  *)
(* the parser applied to it; call holds the text, the parts it was built   *)
(* from and, once done, the result.                                        *)
(***************************************************************************)
MaxLabelLen == 3

\* the characters of a label: letters and the period
LabelChars == {"a", "b", "."}

Labels == UNION {[1..k -> LabelChars] : k \in 1..MaxLabelLen}

\* the outputs of udisksctl mount, "Mounted <device> at <path>.", and the texts
\* without " at "
MountCalls ==
    {[NoCall EXCEPT !.fn = "parse_mount_path", !.path = MEDIA_DIR \o l,
                    !.text = MOUNTED \o DEV_MAPPER_DIR \o MapperName(name) \o AT
                             \o MEDIA_DIR \o l \o <<".">>] : l \in Labels, name \in Names}
    \cup {[NoCall EXCEPT !.fn = "parse_mount_path", !.text = l] : l \in Labels \cup {None}}

DIGITS == <<"0", "1", "2", "3", "4", "5", "6", "7", "8", "9">>

\* the decimal digits of n
RECURSIVE ToDigits(_)
ToDigits(n) == IF n < 10 THEN <<DIGITS[n + 1]>> ELSE ToDigits(n \div 10) \o <<DIGITS[(n % 10) + 1]>>

SizeNumbers == {0, 1, 2, 3, 500, 1023, 1024, 1025}

Suffixes == {None, <<"K">>, <<"M">>, <<"G">>, <<"k">>, <<"m">>, <<"g">>}

\* numeric parts that are no decimal number
NonNumbers == {<<"a", "b", "c">>, <<"x">>, <<"n", "a", "n">>, <<"i", "n", "f">>, <<"1", "x">>}

\* the size specs: a number n or a non-number (n = -1), and a suffix
SizeCalls ==
    {[NoCall EXCEPT !.fn = "parse_size_to_bytes", !.n = n, !.suffix = u,
                    !.text = ToDigits(n) \o u] : n \in SizeNumbers, u \in Suffixes}
    \cup {[NoCall EXCEPT !.fn = "parse_size_to_bytes", !.n = -1, !.suffix = u,
                         !.text = w \o u] : w \in NonNumbers, u \in Suffixes}

FnInit ==
    /\ sys = [files |-> {}, luks |-> {}, devmapper |-> ForeignEntries, mounts |-> {},
              handles |-> [m \in MapperNames |-> 0]]
    /\ proc = [p \in Procs |-> At("idle", None)]
    /\ last = [proc |-> 0, op |-> "init", pre |-> {}, arg |-> None, cmds |-> <<>>,
               report |-> NoReport, cancelled |-> FALSE, confirm |-> "none", rt |-> {}]
    /\ rt = {}
    /\ call \in MountCalls \cup SizeCalls

\* the parsing of the output of udisksctl mount in mount_container
ApplyParseMountPath ==
    /\ call.fn = "parse_mount_path" /\ ~call.done
    /\ call' = [call EXCEPT !.done = TRUE, !.mount_path = ParseMountPath(Strip(call.text))]
    /\ UNCHANGED <<sys, proc, last, rt>>

\* _parse_size_to_bytes, and create_container given the size spec, with a name, a
\* passphrase, the confirmation and a df output of 2048 free bytes
ApplyParseSize ==
    /\ call.fn = "parse_size_to_bytes" /\ ~call.done
    /\ LET o == create_container(sys, [CreateDefault EXCEPT !.name = <<"a">>,
                                                            !.size_str = call.text,
                                                            !.luks_pass = PASSPHRASE,
                                                            !.df = Fits[2], !.confirm = TRUE])
       IN call' = [call EXCEPT !.done = TRUE, !.size_bytes = parse_size_to_bytes(call.text),
                               !.report = o.report, !.files = o.sys.files]
    /\ UNCHANGED <<sys, proc, last, rt>>

FnNext == ApplyParseMountPath \/ ApplyParseSize

FnSpec == FnInit /\ [][FnNext]_vars

(***************************************************************************)
(* The claims.  last describes the step just taken: the handler (op), the  *)
(* instance, the machine before the step (pre), the value the handler was  *)
(* blocked on (arg), the commands run with their exit status (cmds), the   *)
(* box shown (report), and the answers of the user.                        *)
(***************************************************************************)
Sweeps == {"startup_cleanup_check", "on_exit"}

\* the step just taken was the loop of a confirmed sweep
ConfirmedSweep == last.op \in Sweeps /\ last.confirm = "yes"

\* the step just taken ended its handler
Returned == proc[last.proc].pc \in {"idle", "off"}

\* the indices of the commands of the step that are runs of tool
Ran(tool) == {i \in 1..Len(last.cmds) : last.cmds[i].c.tool = tool}

\* the indices of the commands of the step that exited non-zero
Failed == {i \in 1..Len(last.cmds) : ~last.cmds[i].ok}

\* the step just taken was the try block of mount_container, in which cryptsetup
\* open succeeded and udisksctl mount failed
UnlockedNotMounted ==
    /\ last.op = "mount_container"
    /\ Len(last.cmds) >= 2
    /\ last.cmds[1].c.tool = "open" /\ last.cmds[1].ok
    /\ last.cmds[2].c.tool = "mount" /\ ~last.cmds[2].ok

RoundTrip ==
    /\ last.op = "unmount_container"
    /\ last.report.title = "Success"
    /\ \E r \in last.rt : r.mapper = last.arg

\* C3: a successful open-and-mount of a locked container followed immediately by a
\* successful unmount-and-close of its mapper leaves the container files, the open
\* mappers and the mounts exactly as they were before the open.
C3_RoundTripRestores == RoundTrip => \A r \in last.rt : Observed(sys) = r.snap

\* C3 witness: such a round trip has happened.
C3_Witness == RoundTrip

\* C4 as claimed: once a sweep has run (at start or at exit), no _mapper device is
\* left unlocked or mounted, and no instance finishes exiting with one attached.
C4_Original == (last.op \in Sweeps /\ Returned) => detect_open_mappers(sys) = {}

\* C4 amended: after a confirmed sweep, a mapper of its listing is still unlocked
\* only if its close command exited non-zero.
C4_SweptUnlessCloseFailed ==
    ConfirmedSweep =>
        \A m \in Members(last.arg) :
            m \in sys.devmapper =>
                \E i \in Ran("close") : last.cmds[i].c.mapper = m /\ i \in Failed

\* C4 witness: a confirmed sweep over two mappers has closed one and left the other.
C4_Witness ==
    /\ ConfirmedSweep
    /\ \E m \in Members(last.arg) : m \in sys.devmapper
    /\ \E m \in Members(last.arg) : \A s \in last.pre : m \in s.devmapper /\ m \notin sys.devmapper

\* C5: in unmount_container the close is run only after the unmount of that mapper
\* has succeeded; when the unmount fails, no close is run and /dev/mapper is as before.
C5_CloseOnlyAfterUnmount ==
    last.op = "unmount_container" =>
        /\ \A i \in Ran("close") :
              /\ i - 1 \in Ran("unmount") \ Failed
              /\ last.cmds[i - 1].c.mapper = last.cmds[i].c.mapper
        /\ (Ran("unmount") \cap Failed # {}) =>
              /\ Ran("close") = {}
              /\ \A s \in last.pre : sys.devmapper = s.devmapper

\* C5 witness: the unmount of an open mapper has failed in unmount_container.
C5_Witness ==
    /\ last.op = "unmount_container"
    /\ Ran("unmount") \cap Failed # {}
    /\ last.arg \in sys.devmapper

\* C6: when the unlock succeeds and the mount fails, mount_container runs no close
\* and ends with the mapper open and not mounted.
C6_MapperStaysOpen ==
    UnlockedNotMounted =>
        /\ Ran("close") = {}
        /\ last.cmds[1].c.mapper \in sys.devmapper
        /\ last.cmds[1].c.mapper \notin sys.mounts

\* C6 witness: the unlock has succeeded and the mount has failed.
C6_Witness == UnlockedNotMounted

\* the box mount_container shows for this container when its unlock fails
UnlockFailedReport ==
    mount_container_run(CHOOSE s \in last.pre : TRUE, last.arg,
                        [MountRunDefault EXCEPT !.luks_pass = PASSPHRASE, !.confirm = TRUE,
                                                !.faults = [i \in 1..3 |-> i = 1]]).report

C8_SweepNotShortCircuited ==
    ConfirmedSweep =>
        /\ Len(last.cmds) = 2 * Len(last.arg)
        /\ \A k \in 1..Len(last.arg) :
              /\ last.cmds[2 * k - 1].c = Cmd("unmount", None, last.arg[k], "user")
              /\ last.cmds[2 * k].c = Cmd("close", None, last.arg[k], "root")

\* C8 witness: a confirmed sweep over two mappers in which both commands of the first
\* mapper have failed.
C8_Witness ==
    /\ ConfirmedSweep
    /\ Len(last.arg) = 2
    /\ {1, 2} \subseteq Failed

\* the failures a handler reports: the exceptions formatted into its box
ReportedFailures == Cardinality(last.report.exc)

\* C9 as claimed: a sweep reports as many failures as sub-steps of it have failed.
C9_Original == ConfirmedSweep => ReportedFailures = Cardinality(Failed)

\* C10 as claimed: when the user cancels a dialog or declines the confirmation, the
\* handler has run no external command; every command runs after the confirmation
\* was accepted.
C10_Original == (last.cmds # <<>>) => (last.confirm = "yes" /\ ~last.cancelled)

\* C10 amended: when the user cancels a dialog or declines the confirmation, the only
\* external command the handler has run is the free-space query df of
\* create_container; every other command runs after the confirmation was accepted.
C10_OnlyDfBeforeConfirm ==
    \A i \in 1..Len(last.cmds) :
        last.cmds[i].c.tool # "df" => (last.confirm = "yes" /\ ~last.cancelled)

\* C10 witness: the confirmation of create_container is declined after df has run.
C10_Witness ==
    /\ last.op = "create_container"
    /\ last.confirm = "no"
    /\ last.cancelled
    /\ Ran("df") # {}

\* the commands of a log that change the machine: all but the query df
Mutating(log) == {i \in 1..Len(log) : log[i].c.tool # "df"}

\* the handler has ended with an error or warning box, has run no command that
\* changes the machine, and has left the files, the mappers and the mounts as in s
Refused(s, o) ==
    /\ o.ask = None
    /\ o.report.box \in {"showerror", "showwarning"}
    /\ Mutating(o.log) = {}
    /\ Observed(o.sys) = Observed(s)

\* what the user can give create_container once its dialogs are answered and the
\* confirmation accepted, and the checks of the container directory
GivenCreateInputs ==
    {[CreateDefault EXCEPT !.verify = v] : v \in VerifyOutcomes \ {"ok"}}
    \cup {[CreateDefault EXCEPT !.name = name, !.size_str = z, !.luks_pass = PASSPHRASE,
                               !.df = d, !.confirm = TRUE] :
            name \in Names, z \in SizeSpecs, d \in DfOutputs}

\* the free-space query has shown fewer free bytes than the size spec asks for
KnownTooLarge(in) ==
    /\ parse_size_to_bytes(in.size_str).kind = "bytes"
    /\ in.df.kind = "available"
    /\ Exceeds(parse_size_to_bytes(in.size_str), Scaled(in.df.available, "1"))

\* a precondition of create_container is not met: the container directory is not on
\* the partition, the target file exists, the size spec is no size, or the free
\* space is too small for it
CreatePreconditionNotMet(s, in) ==
    \/ in.verify # "ok"
    \/ ImgFile(in.name) \in s.files
    \/ parse_size_to_bytes(in.size_str).kind # "bytes"
    \/ KnownTooLarge(in)

\* a precondition of mount_container is not met: the container directory is not on
\* the partition, or the mapper of the chosen container is already open
MountPreconditionNotMet(s, in) ==
    \/ in.verify # "ok"
    \/ in.cfile # None /\ MapperName(SplitextBase(in.cfile)) \in detect_open_mappers(s)

\* C11 as claimed: whenever a precondition of create_container or mount_container is
\* not met (target file exists, invalid size spec, too little free space, container
\* directory not on the partition, mapper already open), the handler ends with an
\* error report, runs no command that changes the machine, and leaves the container
\* files, the open mappers and the mounts unchanged.
C11_Original ==
    (\E p \in Procs : proc[p].pc = "idle") =>
        /\ \A in \in GivenCreateInputs :
              CreatePreconditionNotMet(sys, in) => Refused(sys, create_container(sys, in))
        /\ \A in \in MountBeginInputs(sys) :
              MountPreconditionNotMet(sys, in) => Refused(sys, mount_container_begin(sys, in))

\* C12 as claimed: on "Mounted <device> at <path>." the parser of mount_container
\* yields exactly <path>, only the one trailing period removed and every other
\* character kept; on a text without " at " it yields the unparseable result None.
C12_Original ==
    (call.fn = "parse_mount_path" /\ call.done) => call.mount_path = call.path

\* the multiplier of a suffix, in units of 1024 bytes
KiBPerUnit(u) ==
    CASE Upper(u) = <<"K">> -> 1
      [] Upper(u) = <<"M">> -> 1024
      [] Upper(u) = <<"G">> -> 1024 * 1024

\* the byte count b is n with the suffix u applied
IsScaled(b, n, u) ==
    /\ b.kind = "bytes"
    /\ b.lo < 1024 * 1024
    /\ IF u = None THEN b.hi * (1024 * 1024) + b.lo = n
       ELSE b.lo % 1024 = 0 /\ b.hi * 1024 + (b.lo \div 1024) = n * KiBPerUnit(u)

\* C13 as claimed: _parse_size_to_bytes maps a spec of number n with suffix K, M or G
\* to n * 1024, n * 1024**2 or n * 1024**3 bytes and a bare n to n ("500M" gives
\* 524288000, "2G" gives 2147483648); it maps a spec whose numeric part is not a
\* number to the invalid-size result, on which create_container shows the
\* invalid-size error and creates nothing.
C13_Original ==
    (call.fn = "parse_size_to_bytes" /\ call.done) =>
        IF call.n >= 0
        THEN IsScaled(call.size_bytes, call.n, call.suffix)
        ELSE /\ call.size_bytes = InvalidSize
             /\ call.report = Report("showerror", "Error", "Invalid size format", call.text)
             /\ call.files = {}

\* the listed container files whose mapper name is m
ContainersOf(m) == {f \in get_container_files(sys) : MapperName(SplitextBase(f)) = m}

\* C14 as claimed: every open mapper <name>_mapper identifies exactly one container
\* file among the listed files (ending in .img or .luks), so that two distinct
\* listed container files never have the same mapper name.
C14_Original ==
    /\ \A m \in detect_open_mappers(sys) : Cardinality(ContainersOf(m)) = 1
    /\ \A f, g \in get_container_files(sys) :
          MapperName(SplitextBase(f)) = MapperName(SplitextBase(g)) => f = g

\* the step just taken was the try block of a confirmed create_container
ConfirmedCreate == last.op = "create_container" /\ last.confirm = "yes"

\* the commands of the step after the free-space query
CreateLog == SubSeq(last.cmds, 2, Len(last.cmds))

\* the steps of a create in the order of the claim
CreateSteps == <<"truncate", "luksFormat", "open", "mkfs", "e2label", "close">>

\* C15: a confirmed create_container runs allocate, format, unlock, build filesystem,
\* label (the label being the container name) and lock in this order, each only
\* after every earlier one has succeeded; the first step that fails ends the handler
\* with the error of that step and no later step is run.
C15_StepsInOrder ==
    ConfirmedCreate =>
        LET k == Len(CreateLog)
        IN /\ k \in 1..Len(CreateSteps)
           /\ \A i \in 1..k : CreateLog[i].c.tool = CreateSteps[i]
           /\ \A i \in 1..(k - 1) : CreateLog[i].ok
           /\ \A i \in 1..k :
                 CreateLog[i].c.tool = "e2label" =>
                     /\ ImgFile(CreateLog[i].c.file) = CreateLog[1].c.file
                     /\ CreateLog[i].c.mapper = CreateLog[3].c.mapper
           /\ IF CreateLog[k].ok
              THEN k = Len(CreateSteps) /\ last.report.box = "showinfo"
              ELSE /\ last.report.box = "showerror"
                   /\ \A e \in last.report.exc : e.cmd = CreateLog[k].c
                   /\ last.report.exc # {}

\* C15 witness: a create has failed at the build of the filesystem, its fourth step,
\* in a directory that holds the file of an earlier create.
C15_Witness ==
    /\ ConfirmedCreate
    /\ Len(CreateLog) = 4
    /\ ~CreateLog[4].ok
    /\ \E f \in sys.files : f # CreateLog[1].c.file /\ EndsWith(f, EXT_IMG)

\* the create just ended had unlocked the mapper of its new container
CreateUnlocked == ConfirmedCreate /\ Len(CreateLog) >= 3 /\ CreateLog[3].ok

\* C16 as claimed: when a create_container ends, on success or aborted at any step,
\* no mapper and no mount of the new container is left: on failure only the
\* half-formed file may remain, with <name>_mapper not open.
C16_Original ==
    CreateUnlocked =>
        /\ CreateLog[3].c.mapper \notin sys.devmapper
        /\ CreateLog[3].c.mapper \notin sys.mounts

\* the step just taken was the try block of mount_container in which the unlock and
\* the mount succeeded
OpenedAndMounted == last.op = "mount_container" /\ Mounted(last.cmds)

\* C17 as claimed: when the unlock and the mount of mount_container succeed and the
\* change of ownership fails, the failure is reported as a degraded outcome and the
\* mount as having succeeded: it is not reported as a failed mount.
C17_Original ==
    (OpenedAndMounted /\ Ran("chown") \cap Failed # {}) =>
        /\ last.report.box \in {"showwarning", "showinfo"}
        /\ last.report.text # "Mount failed"

\* C18 as claimed: a mount_container that leaves the container mounted has assigned
\* the ownership of its mount point to the user, also when the output of the mount
\* command could not be parsed for a path: no container is left mounted and not
\* chowned.
C18_Original ==
    (OpenedAndMounted /\ last.cmds[2].c.mapper \in sys.mounts) =>
        \E i \in Ran("chown") \ Failed : last.cmds[i].c.file = MountPoint(last.cmds[2].c.mapper)

\* the machine after the first k commands of log have run from s
RECURSIVE AfterCmds(_, _, _)
AfterCmds(s, log, k) ==
    IF k = 0 THEN s
    ELSE LET b == AfterCmds(s, log, k - 1)
         IN IF log[k].ok THEN Effect(b, log[k].c) ELSE b

\* the lifecycle state of the container behind mapper m
Lifecycle(s, m) ==
    IF m \in s.mounts THEN "Mounted" ELSE IF m \in s.devmapper THEN "Unlocked" ELSE "Locked"

\* the transitions of the lifecycle
Transitions ==
    {<<"Locked", "Unlocked">>, <<"Unlocked", "Mounted">>,
     <<"Mounted", "Unlocked">>, <<"Unlocked", "Locked">>}

\* the machine changed in the step just taken by its commands only; every command
\* moved every container along at most one transition of the lifecycle, and every
\* mount command was run on an unlocked mapper
LegalSteps ==
    \A s \in last.pre :
        /\ AfterCmds(s, last.cmds, Len(last.cmds)) = sys
        /\ \A i \in 1..Len(last.cmds) :
              LET b == AfterCmds(s, last.cmds, i - 1)
                  a == AfterCmds(s, last.cmds, i)
              IN /\ \A m \in MapperNames :
                       Lifecycle(b, m) # Lifecycle(a, m) =>
                           <<Lifecycle(b, m), Lifecycle(a, m)>> \in Transitions
                 /\ last.cmds[i].c.tool = "mount" =>
                       Lifecycle(b, last.cmds[i].c.mapper) = "Unlocked"

\* C19 as claimed: a container moves only Locked -> Unlocked, Unlocked -> Mounted,
\* Mounted -> Unlocked and Unlocked -> Locked; the mount command is run only on an
\* unlocked mapper and the unmount command of unmount_container only on a mounted
\* one; nothing takes a container directly between Locked and Mounted.
C19_Original ==
    /\ LegalSteps
    /\ last.op = "unmount_container" =>
          \A s \in last.pre : \A i \in Ran("unmount") :
              Lifecycle(AfterCmds(s, last.cmds, i - 1), last.cmds[i].c.mapper) = "Mounted"

\* C19 amended: a container moves only Locked -> Unlocked, Unlocked -> Mounted,
\* Mounted -> Unlocked and Unlocked -> Locked; the mount command is run only on an
\* unlocked mapper; unmount_container runs its unmount command on any open mapper the
\* user picks, and on one that is not mounted the command fails, no close follows and
\* the machine is left as it was.
C19_LegalTransitions ==
    /\ LegalSteps
    /\ last.op = "unmount_container" =>
          \A s \in last.pre : \A i \in Ran("unmount") :
              Lifecycle(AfterCmds(s, last.cmds, i - 1), last.cmds[i].c.mapper) # "Mounted" =>
                  /\ i \in Failed
                  /\ Ran("close") = {}
                  /\ sys = s

\* C19 witness: unmount_container has run its unmount command on a mapper that was
\* unlocked and not mounted.
C19_Witness ==
    /\ last.op = "unmount_container"
    /\ \A s \in last.pre : \E i \in Ran("unmount") :
          Lifecycle(s, last.cmds[i].c.mapper) = "Unlocked"
    /\ last.pre # {}

\* the log holds a run of truncate: the container file is allocated
Allocates(log) == \E i \in 1..Len(log) : log[i].c.tool = "truncate"

\* the free-space query has shown at least as many free bytes as the size spec asks
KnownToFit(in) ==
    /\ parse_size_to_bytes(in.size_str).kind = "bytes"
    /\ in.df.kind = "available"
    /\ ~Exceeds(parse_size_to_bytes(in.size_str), Scaled(in.df.available, "1"))

\* C20 as claimed: create_container allocates the container file only if the size
\* was established to be at most the available free space, for every outcome of the
\* free-space query, one that fails or cannot be parsed included.
C20_Original ==
    (\E p \in Procs : proc[p].pc = "idle") =>
        \A in \in GivenCreateInputs :
            Allocates(create_container(sys, in).log) => KnownToFit(in)

\* C20 amended: create_container does not allocate the container file when the
\* free-space query has shown the size to exceed the available space; when the query
\* fails or its output cannot be parsed, the check passes and a confirmed create of a
\* valid size and free name allocates the file.
C20_RefusedOnlyWhenKnownTooLarge ==
    (\E p \in Procs : proc[p].pc = "idle") =>
        \A in \in GivenCreateInputs :
            LET o == create_container(sys, in)
            IN /\ KnownTooLarge(in) => ~Allocates(o.log)
               /\ (in.verify = "ok" /\ ImgFile(in.name) \notin sys.files
                     /\ parse_size_to_bytes(in.size_str).kind = "bytes"
                     /\ in.df.kind # "available") => Allocates(o.log)

\* C20 witness: a create has allocated its file after a free-space query that failed.
C20_Witness ==
    /\ last.op = "create_container"
    /\ Ran("df") \cap Failed # {}
    /\ Ran("truncate") \ Failed # {}

\* the mappers that are unlocked and not mounted in s
UnlockedOnly(s) == {m \in MapperNames : Lifecycle(s, m) = "Unlocked"}

\* the container files whose mapper is unlocked and not mounted
FilesOfUnlockedOnly ==
    {f \in get_container_files(sys) : MapperName(SplitextBase(f)) \in UnlockedOnly(sys)}

\* C21: a mapper left unlocked and not mounted is never closed by unmount_container:
\* its unmount fails on the device that is not mounted and the close is skipped; the
\* mapper returns to locked only in a confirmed sweep, and until then
\* mount_container refuses its container as already open.
C21_ClosedOnlyBySweep ==
    /\ \A s \in last.pre : \A m \in UnlockedOnly(s) :
          /\ (last.op = "unmount_container" /\ last.arg = m /\ last.cmds # <<>>) =>
                /\ Ran("unmount") = {1} /\ 1 \in Failed
                /\ Ran("close") = {}
                /\ m \in UnlockedOnly(sys)
          /\ m \notin sys.devmapper => ConfirmedSweep
    /\ (\E p \in Procs : proc[p].pc = "idle") =>
          \A f \in FilesOfUnlockedOnly :
              LET o == mount_container_begin(sys, [verify |-> "ok", cfile |-> f])
              IN /\ o.ask = None
                 /\ o.log = <<>>
                 /\ o.report.title = "Already Open"

\* C21 witness: a confirmed sweep has closed a mapper that was unlocked and not
\* mounted, while the container of another such mapper is still refused.
C21_Witness ==
    /\ ConfirmedSweep
    /\ \E s \in last.pre : \E m \in UnlockedOnly(s) : m \notin sys.devmapper
    /\ FilesOfUnlockedOnly # {}
    /\ \E p \in Procs : proc[p].pc = "idle"

\* the handlers that unmount and close: unmount_container and the two sweeps
Closers == Sweeps \cup {"unmount_container"}

\* the mappers the step just taken was to work on: the listing a sweep took at its
\* start, or the entry of the listing picked in unmount_container
Targets == IF last.op \in Sweeps THEN Members(last.arg) ELSE {last.arg}

\* the instance of the step just taken has listed the open mappers and is blocked in
\* the dialog that follows
JustListed ==
    /\ last.op \in Closers
    /\ proc[last.proc].pc \in {"startup_ask", "exit_ask", "unmount_ask"}
    /\ last.cmds = <<>>
    /\ last.arg = None

\* C22: unmount_container and both sweeps run unmount and close commands only on
\* entries of /dev/mapper whose name ends in _mapper and that were in the listing
\* taken at the start of the handler; every other entry of /dev/mapper, control
\* included, is left as it was.
C22_OnlyListedMappers ==
    /\ JustListed =>
          LET asked == proc[last.proc].arg
          IN IF last.op \in Sweeps
             THEN Members(asked) = {m \in sys.devmapper : EndsWith(m, MAPPER_SUFFIX)}
             ELSE asked \in sys.devmapper /\ EndsWith(asked, MAPPER_SUFFIX)
    /\ (last.op \in Closers /\ ~JustListed) =>
          /\ \A i \in 1..Len(last.cmds) :
                /\ last.cmds[i].c.tool \in {"unmount", "close"}
                /\ last.cmds[i].c.mapper \in Targets
                /\ EndsWith(last.cmds[i].c.mapper, MAPPER_SUFFIX)
                /\ last.cmds[i].c.mapper # CONTROL
          /\ \A s \in last.pre :
                /\ s.devmapper \ Targets = sys.devmapper \ Targets
                /\ s.mounts \ Targets = sys.mounts \ Targets
                /\ CONTROL \in s.devmapper <=> CONTROL \in sys.devmapper

\* C22 witness: a confirmed sweep has closed a mapper of its listing, and the
\* entries control and vg-root are in /dev/mapper as before.
C22_Witness ==
    /\ ConfirmedSweep
    /\ \E i \in Ran("close") : i \notin Failed
    /\ ForeignEntries \subseteq sys.devmapper
    /\ \A s \in last.pre : ForeignEntries \subseteq s.devmapper

====
